---- MODULE Spec2Model ----
(***************************************************************************)
(* convert_zup.py: the COLMAP reconstruction pipeline (feature extraction, *)
(* matching, mapper, layout normalization, export to text, Y-Z swap,       *)
(* resize) and the Y-Z swap of the text model files points3D.txt and       *)
(* images.txt.                                                             *)
(*                                                                         *)
(* A text line is a record [ws, toks]: toks are its whitespace-separated   *)
(* fields, ws is how they are laid out ("canon": single spaces and a       *)
(* newline, as an f-string writes them; "tab": tab separated; "trail": a   *)
(* trailing space before the newline).  Two lines are byte-identical iff   *)
(* the records are equal.  A text file is [exists, lines].                 *)
(***************************************************************************)
EXTENDS Integers, Sequences, FiniteSets, TLC

VARIABLES
    pc,         \* position in the script
    ret,        \* where apply_yz_swap_to_colmap_output returns to
    args,       \* parsed command line: skip_matching, auto_z_up, resize
    platform,   \* "posix" or "nt": decides what os.system returns
    running,    \* the collaborator process os.system is waiting for
    exit_code,  \* the script's exit_code variable
    status,     \* exit status of the script's process, NoStatus while it runs
    log,        \* history: what the run has done so far
    db,         \* database.db: [exists, images]
    input,      \* number of files in input/
    images,     \* files copied to images/
    sparse,     \* sparse/: [exists, entries]
    sparse0,    \* sparse/0: [model, moved]
    files,      \* the script's files variable (a directory listing)
    resized,    \* images_2, images_4, images_8: [made, done]
    points3D,   \* sparse/0/points3D.txt
    imagesTxt,  \* sparse/0/images.txt
    camerasTxt, \* sparse/0/cameras.txt
    exported,   \* history: the text files as first produced
    swapped,    \* history: how often the swap rewrote each text file
    listed      \* history: the entries of sparse/ when the script listed it

vars == <<pc, ret, args, platform, running, exit_code, status, log, db, input,
          images, sparse, sparse0, files, resized, points3D, imagesTxt,
          camerasTxt, exported, swapped, listed>>

pipelineVars == <<args, platform, running, exit_code, log, db, input, images,
                  sparse, sparse0, files, resized, listed>>

textVars == <<ret, points3D, imagesTxt, camerasTxt, exported, swapped>>

(***************************************************************************)
(* Bounds                                                                  *)
(***************************************************************************)
MaxLines == 4       \* lines of a text file given to the swap
MaxPasses == 2      \* swap passes applied to one pair of files
MaxModels == 2      \* reconstructions the mapper leaves in sparse/
MaxFiles == 2       \* files in input/
MaxExported == 1    \* records in an exported text file

NoStatus == -1

NotListed == {-1}

(***************************************************************************)
(* Text: fields, float() and the f-string formatting of a float            *)
(***************************************************************************)
Line(ws, toks) == [ws |-> ws, toks |-> toks]

Comment == "#"
Terminator == "Number of images:"

\* float(s), in tenths; the tokens float() accepts
FloatTable ==
    [t \in {"0", "0.0", "1", "1.0", "2", "2.0", "3", "3.0", "0.5", "1.5",
            "2.5", "-1", "-1.0", "10", "10.0"} |->
        CASE t \in {"0", "0.0"} -> 0
          [] t \in {"1", "1.0"} -> 10
          [] t \in {"2", "2.0"} -> 20
          [] t \in {"3", "3.0"} -> 30
          [] t = "0.5" -> 5
          [] t = "1.5" -> 15
          [] t = "2.5" -> 25
          [] t \in {"-1", "-1.0"} -> -10
          [] t \in {"10", "10.0"} -> 100]

IsFloat(t) == t \in DOMAIN FloatTable

float(t) == FloatTable[t]

\* f"{x}" of a float x: the shortest repr, always with a fraction
str(x) ==
    CASE x = 0 -> "0.0"
      [] x = 10 -> "1.0"
      [] x = 20 -> "2.0"
      [] x = 30 -> "3.0"
      [] x = 5 -> "0.5"
      [] x = 15 -> "1.5"
      [] x = 25 -> "2.5"
      [] x = -10 -> "-1.0"
      [] x = 100 -> "10.0"

startswith_hash(line) == Len(line.toks) > 0 /\ line.toks[1] = Comment

is_blank(line) == line.toks = <<>>

\* '# Number of images:' in line
has_terminator(line) ==
    /\ line.ws # "tab"
    /\ \E j \in 2..Len(line.toks) :
          line.toks[j - 1] = Comment /\ line.toks[j] = Terminator

slice_from(parts, from) == SubSeq(parts, from, Len(parts))

(***************************************************************************)
(* apply_yz_swap_to_colmap_output: points3D.txt                            *)
(***************************************************************************)
\* new_line with a fault: Y and Z written back in their old order
point_new_line_unswapped(parts) ==
    Line(IF Len(parts) = 4 THEN "trail" ELSE "canon",
         <<parts[1], str(float(parts[2])), str(float(parts[3])),
           str(float(parts[4]))>> \o slice_from(parts, 5))

\* new_line = f"{pid} {x} {z} {y} {rest}\n"
point_new_line(parts) ==
    LET pid == parts[1]
        x == float(parts[2])
        y == float(parts[3])
        z == float(parts[4])
        rest == slice_from(parts, 5)
    IN  Line(IF rest = <<>> THEN "trail" ELSE "canon",
             <<pid, str(x), str(z), str(y)>> \o rest)

\* points_loop with a fault: a comment or blank line is skipped, not appended
RECURSIVE points_loop_skipping(_, _, _)
points_loop_skipping(lines, k, transformed) ==
    IF k > Len(lines) THEN [raised |-> FALSE, out |-> transformed]
    ELSE LET line == lines[k]
             parts == line.toks
         IN  IF startswith_hash(line) \/ is_blank(line)
             THEN points_loop_skipping(lines, k + 1, transformed)
             ELSE IF Len(parts) >= 4
             THEN IF \E j \in 2..4 : ~IsFloat(parts[j])
                  THEN [raised |-> TRUE, out |-> transformed]
                  ELSE points_loop_skipping(lines, k + 1,
                                            Append(transformed, point_new_line(parts)))
             ELSE points_loop_skipping(lines, k + 1, Append(transformed, line))

\* the loop over the lines of points3D.txt; raised: float() threw ValueError
RECURSIVE points_loop(_, _, _)
points_loop(lines, k, transformed) ==
    IF k > Len(lines) THEN [raised |-> FALSE, out |-> transformed]
    ELSE LET line == lines[k]
             parts == line.toks
         IN  IF startswith_hash(line) \/ is_blank(line)
             THEN points_loop(lines, k + 1, Append(transformed, line))
             ELSE IF Len(parts) >= 4
             THEN IF \E j \in 2..4 : ~IsFloat(parts[j])
                  THEN [raised |-> TRUE, out |-> transformed]
                  ELSE points_loop(lines, k + 1,
                                   Append(transformed, point_new_line(parts)))
             ELSE points_loop(lines, k + 1, Append(transformed, line))

(***************************************************************************)
(* apply_yz_swap_to_colmap_output: images.txt                              *)
(***************************************************************************)
\* new_line = f"{img_id} {qw} {qx} {qz} {qy} {tx} {tz} {ty} {camera_id} {name}\n"
pose_new_line(parts) ==
    LET img_id == parts[1]
        qw == float(parts[2])
        qx == float(parts[3])
        qy == float(parts[4])
        qz == float(parts[5])
        tx == float(parts[6])
        ty == float(parts[7])
        tz == float(parts[8])
        camera_id == parts[9]
        name == parts[10]
    IN  Line("canon", <<img_id, str(qw), str(qx), str(qz), str(qy), str(tx),
                        str(tz), str(ty), camera_id, name>>)

\* if i % 2 == 0, i the 0-based index of the line in the file
is_pose_index(i) == i % 2 = 0

\* the loop over the lines of images.txt, i counting from 0
RECURSIVE images_loop(_, _, _, _)
images_loop(lines, i, in_camera_section, transformed) ==
    IF i >= Len(lines) THEN [raised |-> FALSE, out |-> transformed]
    ELSE LET line == lines[i + 1]
             parts == line.toks
         IN  IF startswith_hash(line) \/ is_blank(line)
             THEN images_loop(lines, i + 1,
                              in_camera_section /\ ~has_terminator(line),
                              Append(transformed, line))
             ELSE IF in_camera_section
             THEN images_loop(lines, i + 1, in_camera_section,
                              Append(transformed, line))
             ELSE IF is_pose_index(i) /\ Len(parts) >= 10
             THEN IF \E j \in 2..8 : ~IsFloat(parts[j])
                  THEN [raised |-> TRUE, out |-> transformed]
                  ELSE images_loop(lines, i + 1, in_camera_section,
                                   Append(transformed, pose_new_line(parts)))
             ELSE images_loop(lines, i + 1, in_camera_section,
                              Append(transformed, line))

(***************************************************************************)
(* The two steps of apply_yz_swap_to_colmap_output                         *)
(***************************************************************************)
\* an uncaught exception: traceback, exit status 1
Crash ==
    /\ pc' = "crashed"
    /\ status' = 1

Absent == [exists |-> FALSE, lines |-> <<>>]

File(lines) == [exists |-> TRUE, lines |-> lines]

\* images_file with a fault: the path of the cameras file
images_file_cameras == "cameras.txt"

\* the paths the function joins to sparse_dir
points_file == "points3D.txt"

images_file == "images.txt"

\* the file of sparse_dir with this name
read(name) ==
    CASE name = "points3D.txt" -> points3D
      [] name = "images.txt" -> imagesTxt
      [] name = "cameras.txt" -> camerasTxt

\* os.path.exists with a fault: true of every path
exists_always(file) == TRUE

\* os.path.exists
exists(file) == file.exists

\* open(name, 'w') and writelines: the file of sparse_dir with this name gets
\* the content, the others stay
store(name, content) ==
    /\ points3D' = IF name = "points3D.txt" THEN content ELSE points3D
    /\ imagesTxt' = IF name = "images.txt" THEN content ELSE imagesTxt
    /\ camerasTxt' = IF name = "cameras.txt" THEN content ELSE camerasTxt

\* the history field that counts the rewrites of a file
counter(name) ==
    CASE name = "points3D.txt" -> "points"
      [] name = "images.txt" -> "images"
      [] name = "cameras.txt" -> "cameras"

\* after_section with a fault: each line is written as soon as it is
\* processed, so a loop that raised leaves the lines before the failing one
after_section_partial(old, r) == File(r.out)

\* the file after its section: the write comes after the loop, so a loop
\* that raised leaves the file as it was
after_section(old, r) == IF r.raised THEN old ELSE File(r.out)

\* in_camera_section_init with a fault: the loop starts in the data region
in_camera_section_unset == FALSE

\* in_camera_section as the images section sets it before its loop
in_camera_section_init == TRUE

\* section 1: read points3D.txt, transform, write it back
SwapPoints ==
    /\ pc = "swap_points"
    /\ IF ~exists(read(points_file))
       THEN /\ pc' = "swap_images"
            /\ UNCHANGED <<points3D, imagesTxt, camerasTxt, swapped, status>>
       ELSE LET r == points_loop(read(points_file).lines, 1, <<>>)
            IN  /\ store(points_file, after_section(read(points_file), r))
                /\ IF r.raised
                   THEN Crash /\ UNCHANGED swapped
                   ELSE /\ swapped' = [swapped EXCEPT ![counter(points_file)] = @ + 1]
                        /\ pc' = "swap_images"
                        /\ UNCHANGED status
    /\ UNCHANGED <<ret, exported>>
    /\ UNCHANGED pipelineVars

\* section 2: read images.txt, transform, write it back, return
SwapImages ==
    /\ pc = "swap_images"
    /\ IF ~exists(read(images_file))
       THEN /\ pc' = ret
            /\ swapped' = [swapped EXCEPT !.passes = @ + 1]
            /\ UNCHANGED <<points3D, imagesTxt, camerasTxt, status>>
       ELSE LET r == images_loop(read(images_file).lines, 0,
                                 in_camera_section_init, <<>>)
            IN  /\ store(images_file, after_section(read(images_file), r))
                /\ IF r.raised
                   THEN Crash /\ UNCHANGED swapped
                   ELSE /\ swapped' = [swapped EXCEPT ![counter(images_file)] = @ + 1,
                                                      !.passes = @ + 1]
                        /\ pc' = ret
                        /\ UNCHANGED status
    /\ UNCHANGED <<ret, exported>>
    /\ UNCHANGED pipelineVars

(***************************************************************************)
(* The swap on its own: any pair of text files, up to MaxPasses passes     *)
(***************************************************************************)
SeqsUpTo(S, n) == UNION {[1..k -> S] : k \in 0..n}

PointsLines ==
    { Line("canon", <<Comment>>),
      Line("canon", <<>>),
      Line("canon", <<"7", "1.0", "2.0", "3.0", "10", "0.5">>),
      Line("tab", <<"8", "1", "2", "3">>),
      Line("canon", <<"9", "1.5">>),
      Line("canon", <<"9", "1.0", "x", "3.0", "10">>) }

ImagesLines ==
    { Line("canon", <<Comment>>),
      Line("canon", <<Comment, Terminator>>),
      Line("canon", <<>>),
      Line("canon", <<"1", "1", "0", "0", "0", "0", "1", "2", "1", "img.jpg">>),
      Line("tab", <<"2", "1.0", "0.0", "0.5", "0.0", "0.0", "1.0", "2.0", "1",
                    "my", "img.jpg">>),
      Line("canon", <<"1.5", "2.5", "-1">>),
      Line("canon", <<"1.5", "2.5", "-1", "0.5", "1.5", "3", "2.5", "0.5", "-1",
                      "1.5", "1.5", "2">>),
      Line("canon", <<"3", "1.0", "0.0", "x", "0.0", "0.0", "1.0", "2.0", "1",
                      "img.jpg">>) }

PointsFiles == {Absent} \cup {File(l) : l \in SeqsUpTo(PointsLines, MaxLines)}

ImagesFiles == {Absent} \cup {File(l) : l \in SeqsUpTo(ImagesLines, MaxLines)}

\* cameras.txt as COLMAP writes it: a header and one camera per line
CamerasFile ==
    File(<<Line("canon", <<Comment>>),
           Line("canon", <<"1", "PINHOLE", "1920", "1080", "1000.5", "1000.5",
                           "960", "540">>)>>)

NoArgs == [skip_matching |-> TRUE, auto_z_up |-> TRUE, resize |-> FALSE]

InitTransform ==
    /\ pc = "swap_points"
    /\ ret = "harness"
    /\ \/ /\ points3D \in PointsFiles
          /\ imagesTxt = Absent
          /\ camerasTxt \in {Absent, CamerasFile}
       \/ /\ points3D = Absent
          /\ imagesTxt \in ImagesFiles
          /\ camerasTxt = CamerasFile
       \/ /\ points3D = File(<<Line("canon", <<"7", "1.0", "2.0", "3.0", "10", "0.5">>)>>)
          /\ imagesTxt \in ImagesFiles
          /\ camerasTxt = CamerasFile
    /\ exported = [points |-> points3D, images |-> imagesTxt,
                   cameras |-> camerasTxt]
    /\ swapped = [points |-> 0, images |-> 0, cameras |-> 0, passes |-> 0]
    /\ status = NoStatus
    /\ args = NoArgs
    /\ platform = "posix"
    /\ running = "none"
    /\ exit_code = 0
    /\ log = <<>>
    /\ db = [exists |-> FALSE, images |-> FALSE]
    /\ input = 0
    /\ images = {}
    /\ sparse = [exists |-> TRUE, entries |-> {0}]
    /\ sparse0 = [model |-> TRUE, moved |-> [x \in 1..(MaxModels - 1) |-> 0]]
    /\ files = <<>>
    /\ resized = [made |-> FALSE, done |-> {}]
    /\ listed = NotListed

\* the caller applies the swap to the same directory again
SwapAgain ==
    /\ pc = "harness"
    /\ swapped.passes < MaxPasses
    /\ pc' = "swap_points"
    /\ UNCHANGED <<ret, status, points3D, imagesTxt, camerasTxt, exported,
                   swapped>>
    /\ UNCHANGED pipelineVars

NextTransform == SwapPoints \/ SwapImages \/ SwapAgain

SpecTransform == InitTransform /\ [][NextTransform]_vars

(***************************************************************************)
(* The pipeline: collaborators, their completion status and exit()         *)
(***************************************************************************)
ExitCodes == {0, 1, 2}

\* how a collaborator process ends: it exits with a code, or (posix) the
\* shell running it is killed by a signal
Outcomes ==
    {[code |-> c, sig |-> 0] : c \in ExitCodes}
        \cup (IF platform = "posix" THEN {[code |-> 0, sig |-> 9]} ELSE {})

NoOutcome == [code |-> 0, sig |-> 0]

Succeeded(o) == o.code = 0 /\ o.sig = 0

\* what os.system returns: on posix the wait() encoding of the status (the
\* exit code in the high byte, the signal in the low one), on nt the exit code
os_system(o) == IF platform = "posix" THEN o.code * 256 + o.sig ELSE o.code

\* the exit status a process gets from exit(n): n truncated to 8 bits
exit(n) == n % 256

Event(ev, op, arg, o, st) == [ev |-> ev, op |-> op, arg |-> arg, out |-> o, st |-> st]

Did(op, arg) == Event("do", op, arg, NoOutcome, 0)

\* the check with a fault: the completion status is not looked at
check_exit_code_ignored(code, next) == [pc |-> next, status |-> NoStatus]

\* if exit_code != 0: logging.error(...); exit(exit_code)
check_exit_code(code, next) ==
    IF code # 0 THEN [pc |-> "exited", status |-> exit(code)]
    ELSE [pc |-> next, status |-> NoStatus]

\* os.system(cmd) starts the collaborator and blocks
Invoke(at, op, arg) ==
    /\ pc = at
    /\ running = "none"
    /\ running' = op
    /\ log' = Append(log, Event("call", op, arg, NoOutcome, 0))
    /\ UNCHANGED <<pc, status, args, platform, exit_code, db, input, images,
                   sparse, sparse0, files, listed>>
    /\ UNCHANGED textVars

\* os.system returns with outcome o; the script checks exit_code and goes on
\* at next, doing more (the events in more) on the way there
Returned(at, op, arg, o, next, more) ==
    /\ pc = at
    /\ running = op
    /\ running' = "none"
    /\ exit_code' = os_system(o)
    /\ LET r == check_exit_code(exit_code', next)
       IN  /\ pc' = r.pc
           /\ status' = r.status
           /\ log' = Append(log, Event("return", op, arg, o, exit_code'))
                        \o (IF r.pc = next THEN more ELSE <<>>)
    /\ UNCHANGED <<args, platform, input, images, listed>>

\* the branch with a fault: --skip_matching is not looked at
first_stage_always(skip_matching) == "feature_extraction"

\* if not args.skip_matching:
first_stage(skip_matching) ==
    IF skip_matching THEN "copy_images" ELSE "feature_extraction"

EmptySparse0 == [model |-> FALSE, moved |-> [x \in 1..(MaxModels - 1) |-> 0]]

\* lines 137-138
EnterMatching ==
    /\ pc = "main"
    /\ pc' = first_stage(args.skip_matching)
    /\ sparse' = IF pc' = "feature_extraction"
                 THEN [sparse EXCEPT !.exists = TRUE] ELSE sparse
    /\ UNCHANGED <<status, args, platform, running, exit_code, log, db, input,
                   images, sparse0, files, resized, listed>>
    /\ UNCHANGED textVars

\* lines 141-147
FeatureExtractionCall ==
    /\ Invoke("feature_extraction", "feature_extractor", 0)
    /\ UNCHANGED resized

\* lines 147-150; the extractor fills database.db with the images of input/
FeatureExtractionReturn ==
    /\ \E o \in Outcomes :
          /\ Returned("feature_extraction", "feature_extractor", 0, o,
                      "feature_matching", <<>>)
          /\ db' = IF Succeeded(o)
                   THEN [exists |-> TRUE, images |-> db.images \/ input > 0]
                   ELSE db
    /\ UNCHANGED <<sparse, sparse0, files, resized>>
    /\ UNCHANGED textVars

\* lines 153-156
FeatureMatchingCall ==
    /\ Invoke("feature_matching", "exhaustive_matcher", 0)
    /\ UNCHANGED resized

\* lines 156-159
FeatureMatchingReturn ==
    /\ \E o \in Outcomes :
          Returned("feature_matching", "exhaustive_matcher", 0, o, "mapper", <<>>)
    /\ UNCHANGED <<db, sparse, sparse0, files, resized>>
    /\ UNCHANGED textVars

\* lines 162-175 (the option added to mapper_cmd changes no control flow)
MapperCall ==
    /\ Invoke("mapper", "mapper", 0)
    /\ UNCHANGED resized

\* lines 175-178; the mapper leaves n reconstructions sparse/0 .. sparse/n-1
MapperReturn ==
    /\ \E o \in Outcomes, n \in 0..MaxModels :
          /\ Returned("mapper", "mapper", 0, o, "copy_images", <<>>)
          /\ IF Succeeded(o)
             THEN /\ sparse' = [sparse EXCEPT !.entries = @ \cup 0..(n - 1)]
                  /\ sparse0' = [sparse0 EXCEPT !.model = @ \/ n > 0]
             ELSE n = 0 /\ UNCHANGED <<sparse, sparse0>>
    /\ UNCHANGED <<db, files, resized>>
    /\ UNCHANGED textVars

\* the files of a directory in the order os.listdir returns them
Orders(S) ==
    {s \in [1..Cardinality(S) -> S] : \A i, j \in DOMAIN s : s[i] = s[j] => i = j}

\* lines 181-182: files = os.listdir(input)
CopyImagesList ==
    /\ pc = "copy_images"
    /\ files' = [i \in 1..input |-> i]
    /\ pc' = "copy_loop"
    /\ UNCHANGED <<status, args, platform, running, exit_code, log, db, input,
                   images, sparse, sparse0, resized, listed>>
    /\ UNCHANGED textVars

\* lines 183-186: one iteration
CopyImage ==
    /\ pc = "copy_loop"
    /\ files # <<>>
    /\ images' = images \cup {Head(files)}
    /\ files' = Tail(files)
    /\ log' = Append(log, Did("copy2", Head(files)))
    /\ UNCHANGED <<pc, status, args, platform, running, exit_code, db, input,
                   sparse, sparse0, resized, listed>>
    /\ UNCHANGED textVars

\* lines 188-189: files = os.listdir(sparse); os.makedirs(sparse/0)
ListSparse ==
    /\ pc = "copy_loop"
    /\ files = <<>>
    /\ IF ~sparse.exists
       THEN Crash /\ UNCHANGED <<files, sparse, sparse0, listed>>
       ELSE /\ files' \in Orders(sparse.entries)
            /\ listed' = sparse.entries
            /\ sparse' = [sparse EXCEPT !.entries = @ \cup {0}]
            /\ pc' = "move_loop"
            /\ UNCHANGED <<status, sparse0>>
    /\ UNCHANGED <<args, platform, running, exit_code, log, db, input, images,
                   resized>>
    /\ UNCHANGED textVars

\* the move with a fault: the entry is copied, not moved
entries_after_copy(entries, file) == entries

\* shutil.move takes the entry out of sparse/
entries_after_move(entries, file) == entries \ {file}

\* lines 190-195: one iteration.  shutil.move(sparse/X, sparse/0/X) renames
\* when sparse/0/X is free, moves to sparse/0/X/X when sparse/0/X is a
\* directory, and raises shutil.Error when sparse/0/X/X exists too
MoveEntry ==
    /\ pc = "move_loop"
    /\ files # <<>>
    /\ running = "none"
    /\ LET file == Head(files)
       IN  IF file = 0
           THEN /\ files' = Tail(files)
                /\ UNCHANGED <<pc, status, sparse, sparse0, log>>
           ELSE IF sparse0.moved[file] >= 2
           THEN Crash /\ UNCHANGED <<files, sparse, sparse0, log>>
           ELSE /\ sparse' = [sparse EXCEPT
                                 !.entries = entries_after_move(@, file)]
                /\ sparse0' = [sparse0 EXCEPT !.moved[file] = @ + 1]
                /\ files' = Tail(files)
                /\ log' = Append(log, Did("move", file))
                /\ UNCHANGED <<pc, status>>
    /\ UNCHANGED <<args, platform, running, exit_code, db, input, images,
                   resized, listed>>
    /\ UNCHANGED textVars

\* lines 198-209 and 221-227: both branches invoke model_converter
ConvertCall ==
    /\ files = <<>>
    /\ Invoke("move_loop", "model_converter", 0)
    /\ UNCHANGED resized

\* what model_converter writes: the format's header and the records
PointsHeader == <<Line("canon", <<Comment>>), Line("canon", <<Comment>>),
                  Line("canon", <<Comment>>)>>

ImagesHeader == <<Line("canon", <<Comment>>), Line("canon", <<Comment>>),
                  Line("canon", <<Comment>>),
                  Line("canon", <<Comment, Terminator>>)>>

\* the i-th record of points3D.txt: one line
PointRecord(i) ==
    IF i % 2 = 1
    THEN <<Line("canon", <<"7", "1.0", "2.0", "3.0", "10", "20", "30", "0.5", "4",
                           "0", "5", "1">>)>>
    ELSE <<Line("canon", <<"8", "0.5", "-1", "2.5", "10", "20", "30", "0.5">>)>>

\* the i-th record of images.txt: the pose line and the line of its
\* observations, empty for an image without any
ImageRecord(i) ==
    IF i % 2 = 1
    THEN <<Line("canon", <<"1", "1", "0", "0", "0", "0", "1", "2", "1", "img.jpg">>),
           Line("canon", <<"1.5", "2.5", "-1">>)>>
    ELSE <<Line("canon", <<"2", "0.5", "0.5", "1.0", "0.0", "1.5", "2.5", "0.5", "1",
                           "b.jpg">>),
           Line("canon", <<>>)>>

\* the first n records of points3D.txt and of images.txt
RECURSIVE PointRecords(_)
PointRecords(n) == IF n = 0 THEN <<>> ELSE PointRecords(n - 1) \o PointRecord(n)

RECURSIVE ImageRecords(_)
ImageRecords(n) == IF n = 0 THEN <<>> ELSE ImageRecords(n - 1) \o ImageRecord(n)

ExportedPoints == {File(PointsHeader \o PointRecords(n)) : n \in 0..MaxExported}

ExportedImages == {File(ImagesHeader \o ImageRecords(n)) : n \in 0..MaxExported}

SwapEvent == Did("apply_yz_swap", 0)

\* after_export with a fault: the swap runs whatever the flag says
after_export_always(auto_z_up) == "swap_points"

\* lines 213-230: where the script goes after the export to text
after_export(auto_z_up) == IF auto_z_up THEN "swap_points" ELSE "resize"

\* lines 209-215 and 227-232: on success the text files are there; with
\* --auto_z_up the script goes on into apply_yz_swap_to_colmap_output
ConvertReturn ==
    /\ \E o \in Outcomes :
          /\ Succeeded(o) => sparse0.model
          /\ Returned("move_loop", "model_converter", 0, o,
                      after_export(args.auto_z_up),
                      IF args.auto_z_up THEN <<SwapEvent>> ELSE <<>>)
          /\ IF Succeeded(o)
             THEN /\ points3D' \in ExportedPoints
                  /\ imagesTxt' \in ExportedImages
                  /\ camerasTxt' = CamerasFile
                  /\ exported' = [points |-> points3D', images |-> imagesTxt',
                                  cameras |-> camerasTxt']
             ELSE UNCHANGED <<points3D, imagesTxt, camerasTxt, exported>>
    /\ ret' = "check_db"
    /\ UNCHANGED <<db, sparse, sparse0, files, resized, swapped>>

\* lines 218-219 and 117-132: force_z_up_with_nadir_image up to its call of
\* apply_yz_swap_to_colmap_output
NadirCheck ==
    /\ pc = "check_db"
    /\ IF db.exists /\ db.images
       THEN /\ pc' = "swap_points"
            /\ ret' = "nadir_close"
            /\ log' = Append(log, SwapEvent)
       ELSE /\ pc' = "resize"
            /\ UNCHANGED <<ret, log>>
    /\ UNCHANGED <<status, args, platform, running, exit_code, db, input,
                   images, sparse, sparse0, files, resized, listed>>
    /\ UNCHANGED <<points3D, imagesTxt, camerasTxt, exported, swapped>>

\* line 134: conn.close(), back in the main script
NadirClose ==
    /\ pc = "nadir_close"
    /\ pc' = "resize"
    /\ UNCHANGED <<status, args, platform, running, exit_code, log, db, input,
                   images, sparse, sparse0, files, resized, listed>>
    /\ UNCHANGED textVars

Ratios == {"50%", "25%", "12.5%"}

ResizePc(ratio) ==
    CASE ratio = "50%" -> "resize_50"
      [] ratio = "25%" -> "resize_25"
      [] ratio = "12.5%" -> "resize_12"

\* next_resize with a fault: the 12.5% resize comes before the 25% one
next_resize_reordered(ratio) ==
    CASE ratio = "50%" -> "resize_12"
      [] ratio = "12.5%" -> "resize_25"
      [] ratio = "25%" -> "resize_50"

\* where the loop body goes after a resize that returned 0: 50%, 25%, 12.5%,
\* then the next file
next_resize(ratio) ==
    CASE ratio = "50%" -> "resize_25"
      [] ratio = "25%" -> "resize_12"
      [] ratio = "12.5%" -> "resize_50"

\* lines 232-240
ResizeList ==
    /\ pc = "resize"
    /\ IF args.resize
       THEN /\ resized' = [resized EXCEPT !.made = TRUE]
            /\ files' = [i \in 1..Cardinality(images) |-> i]
            /\ pc' = "resize_50"
       ELSE /\ pc' = "end"
            /\ UNCHANGED <<resized, files>>
    /\ UNCHANGED <<status, args, platform, running, exit_code, log, db, input,
                   images, sparse, sparse0, listed>>
    /\ UNCHANGED textVars

\* lines 244-246, 251-253, 258-260: copy the file, invoke mogrify on the copy
ResizeCall ==
    \E ratio \in Ratios :
        /\ files # <<>>
        /\ Invoke(ResizePc(ratio), "mogrify", ratio)
        /\ resized' = [resized EXCEPT !.done = @ \cup {<<ratio, Head(files)>>}]

\* lines 246-249, 253-256, 260-263
ResizeReturn ==
    /\ \E ratio \in Ratios, o \in Outcomes :
          /\ Returned(ResizePc(ratio), "mogrify", ratio, o, next_resize(ratio), <<>>)
          /\ files' = IF ratio = "12.5%" /\ Succeeded(o) THEN Tail(files) ELSE files
    /\ UNCHANGED <<db, sparse, sparse0, resized>>
    /\ UNCHANGED textVars

\* lines 265-268: the script ends, exit status 0
Finish ==
    /\ \/ pc = "end"
       \/ pc = "resize_50" /\ files = <<>>
    /\ running = "none"
    /\ pc' = "done"
    /\ status' = 0
    /\ UNCHANGED <<args, platform, running, exit_code, log, db, input, images,
                   sparse, sparse0, files, resized, listed>>
    /\ UNCHANGED textVars

\* sparse/ as a run finds it: absent, as the mapper left it, or as an
\* earlier run normalized it
Layouts ==
    {[sparse |-> [exists |-> FALSE, entries |-> {}], sparse0 |-> EmptySparse0]}
    \cup {[sparse |-> [exists |-> TRUE, entries |-> 0..(n - 1)],
           sparse0 |-> [EmptySparse0 EXCEPT !.model = n > 0]] : n \in 0..MaxModels}
    \cup {[sparse |-> [exists |-> TRUE, entries |-> {0}],
           sparse0 |-> [model |-> TRUE, moved |-> m]] :
             m \in [1..(MaxModels - 1) -> 0..2]}

Init ==
    /\ pc = "main"
    /\ ret = "check_db"
    /\ args \in [skip_matching : BOOLEAN, auto_z_up : BOOLEAN, resize : BOOLEAN]
    /\ platform \in {"posix", "nt"}
    /\ running = "none"
    /\ exit_code = 0
    /\ status = NoStatus
    /\ log = <<>>
    /\ db \in {[exists |-> FALSE, images |-> FALSE],
               [exists |-> TRUE, images |-> FALSE],
               [exists |-> TRUE, images |-> TRUE]}
    /\ input \in 0..MaxFiles
    /\ images = {}
    /\ \E l \in Layouts : sparse = l.sparse /\ sparse0 = l.sparse0
    /\ files = <<>>
    /\ resized = [made |-> FALSE, done |-> {}]
    /\ points3D = Absent
    /\ imagesTxt = Absent
    /\ camerasTxt = Absent
    /\ exported = [points |-> Absent, images |-> Absent, cameras |-> Absent]
    /\ swapped = [points |-> 0, images |-> 0, cameras |-> 0, passes |-> 0]
    /\ listed = NotListed

Next ==
    \/ EnterMatching
    \/ FeatureExtractionCall
    \/ FeatureExtractionReturn
    \/ FeatureMatchingCall
    \/ FeatureMatchingReturn
    \/ MapperCall
    \/ MapperReturn
    \/ CopyImagesList
    \/ CopyImage
    \/ ListSparse
    \/ MoveEntry
    \/ ConvertCall
    \/ ConvertReturn
    \/ SwapPoints
    \/ SwapImages
    \/ NadirCheck
    \/ NadirClose
    \/ ResizeList
    \/ ResizeCall
    \/ ResizeReturn
    \/ Finish

Spec == Init /\ [][Next]_vars

(***************************************************************************)
(* What the claims speak of                                                *)
(***************************************************************************)
IsData(line) == ~startswith_hash(line) /\ ~is_blank(line)

\* two fields denote the same value: the same number, or the same text
SameValue(a, b) == IF IsFloat(a) /\ IsFloat(b) THEN float(a) = float(b) ELSE a = b

\* index (from 1) of the first data line after the header terminator of
\* images.txt; Len + 1 when the file has no data region
DataStart(lines) ==
    LET firsts == {k \in 1..Len(lines) :
                      /\ IsData(lines[k])
                      /\ \E j \in 1..(k - 1) :
                            startswith_hash(lines[j]) /\ has_terminator(lines[j])}
    IN  IF firsts = {} THEN Len(lines) + 1
        ELSE CHOOSE k \in firsts : \A m \in firsts : k <= m

\* the lines of the data region at an even (odd) offset from its first line
EvenData(lines) ==
    {k \in DataStart(lines)..Len(lines) : (k - DataStart(lines)) % 2 = 0}

OddData(lines) ==
    {k \in DataStart(lines)..Len(lines) : (k - DataStart(lines)) % 2 = 1}

\* new is old with Y and Z of the position exchanged, nothing else changed
IsSwappedPoint(old, new) ==
    /\ Len(new) = Len(old)
    /\ new[1] = old[1]
    /\ IsFloat(new[2]) /\ float(new[2]) = float(old[2])
    /\ IsFloat(new[3]) /\ float(new[3]) = float(old[4])
    /\ IsFloat(new[4]) /\ float(new[4]) = float(old[3])
    /\ slice_from(new, 5) = slice_from(old, 5)

\* the quaternion and translation of new are those of old with qy, qz and
\* ty, tz exchanged
IsSwappedPose(old, new) ==
    /\ Len(new) >= 8
    /\ \A j \in 2..8 : IsFloat(new[j])
    /\ float(new[2]) = float(old[2])
    /\ float(new[3]) = float(old[3])
    /\ float(new[4]) = float(old[5])
    /\ float(new[5]) = float(old[4])
    /\ float(new[6]) = float(old[6])
    /\ float(new[7]) = float(old[8])
    /\ float(new[8]) = float(old[7])

\* the first pass has just rewritten images.txt
ImagesSwappedOnce == swapped.images = 1 /\ Len(imagesTxt.lines) = Len(exported.images.lines)

(***************************************************************************)
(* C4: in images.txt every odd-indexed line of the data region (counting   *)
(* from the first data line after the header) is emitted byte-identical by *)
(* the transform pass, whatever the length of the header.                  *)
(* The code decides by the line's index in the file (i % 2), so after a    *)
(* header of odd length an observation line is rewritten as a pose.        *)
(***************************************************************************)
C4_ObservationLinesUntouched ==
    ImagesSwappedOnce =>
        \A k \in OddData(exported.images.lines) :
            imagesTxt.lines[k] = exported.images.lines[k]

\* the coordinates the tuples are built from, as floats
Values == {0, 5, 10, 20}

\* two applications of new_line give back the tuple
C5_TupleInvolution ==
    /\ \A x, y, z \in Values :
          LET p == <<"7", str(x), str(y), str(z)>>
          IN  point_new_line(point_new_line(p).toks).toks = p
    /\ \A qy, qz, ty, tz \in Values :
          LET p == <<"1", "1.0", "0.0", str(qy), str(qz), "0.5", str(ty), str(tz),
                     "1", "img.jpg">>
          IN  pose_new_line(pose_new_line(p).toks).toks = p

\* the same number of fields, each with the same value
SameFields(old, new) ==
    /\ Len(new) = Len(old)
    /\ \A j \in 1..Len(old) : SameValue(new[j], old[j])

(***************************************************************************)
(* C5: the transform is an involution: on a point tuple and on a pose      *)
(* tuple two applications give back the tuple, and two passes over the     *)
(* files give every data line the field values it had.                     *)
(* The tuples do come back; a pose line of more than 10 fields does not    *)
(* (see C8).                                                               *)
(***************************************************************************)
C5_Involution ==
    /\ C5_TupleInvolution
    /\ swapped.passes = 2 =>
          /\ Len(points3D.lines) = Len(exported.points.lines)
          /\ Len(imagesTxt.lines) = Len(exported.images.lines)
          /\ \A k \in 1..Len(exported.points.lines) :
                IsData(exported.points.lines[k]) =>
                    SameFields(exported.points.lines[k].toks, points3D.lines[k].toks)
          /\ \A k \in 1..Len(exported.images.lines) :
                IsData(exported.images.lines[k]) =>
                    SameFields(exported.images.lines[k].toks, imagesTxt.lines[k].toks)

(***************************************************************************)
(* C6: in images.txt every even-indexed line of the data region with at    *)
(* least 10 fields is rewritten with (tx, ty, tz) -> (tx, tz, ty) and      *)
(* (qw, qx, qy, qz) -> (qw, qx, qz, qy), and with fewer than 10 fields is  *)
(* passed through, for every header length.                                *)
(* After a header of odd length the pose lines are the ones left alone.    *)
(***************************************************************************)
C6_PoseLinesSwapped ==
    ImagesSwappedOnce =>
        \A k \in EvenData(exported.images.lines) :
            LET old == exported.images.lines[k]
                new == imagesTxt.lines[k]
            IN  IsData(old) =>
                    IF Len(old.toks) >= 10
                    THEN IsSwappedPose(old.toks, new.toks)
                    ELSE new = old

(***************************************************************************)
(* C7: in points3D.txt every non-comment, non-blank line with at least 4   *)
(* fields is rewritten with its identifier unchanged, its position mapped  *)
(* (x, y, z) -> (x, z, y) and its trailing fields unchanged and in order;  *)
(* with fewer than 4 fields it is re-emitted identically.                  *)
(***************************************************************************)
C7_PointsSwapped ==
    swapped.points = 1 =>
        /\ Len(points3D.lines) = Len(exported.points.lines)
        /\ \A k \in 1..Len(exported.points.lines) :
              LET old == exported.points.lines[k]
                  new == points3D.lines[k]
              IN  IsData(old) =>
                      IF Len(old.toks) >= 4
                      THEN IsSwappedPoint(old.toks, new.toks)
                      ELSE new = old

\* a file with a point whose Y and Z differ and a short line has been rewritten
C7_Witness ==
    /\ swapped.points = 1
    /\ \E k \in 1..Len(exported.points.lines) :
          LET old == exported.points.lines[k].toks
          IN  Len(old) > 4 /\ float(old[3]) # float(old[4])
    /\ \E k \in 1..Len(exported.points.lines) :
          LET old == exported.points.lines[k].toks
          IN  Len(old) \in 1..3 /\ old[1] # Comment

(***************************************************************************)
(* C8: transforming a pose line permutes only its quaternion and           *)
(* translation: image identifier, qw, qx, tx, camera identifier and the    *)
(* complete file name / remaining fields are unchanged and no field is     *)
(* dropped or added, also for a line of more than 10 fields.               *)
(* The code writes parts[9] as the name and drops parts[10:].              *)
(***************************************************************************)
C8_PoseFrame ==
    ImagesSwappedOnce =>
        \A k \in EvenData(exported.images.lines) :
            LET old == exported.images.lines[k].toks
                new == imagesTxt.lines[k].toks
            IN  (IsData(exported.images.lines[k]) /\ Len(old) >= 10) =>
                    /\ Len(new) = Len(old)
                    /\ new[1] = old[1]
                    /\ SameValue(new[2], old[2])
                    /\ SameValue(new[3], old[3])
                    /\ SameValue(new[6], old[6])
                    /\ new[9] = old[9]
                    /\ slice_from(new, 10) = slice_from(old, 10)

(***************************************************************************)
(* The run, as the claims about the pipeline speak of it                   *)
(***************************************************************************)
IsReturn(e) == e.ev = "return"

Failed(e) == IsReturn(e) /\ ~Succeeded(e.out)

\* the collaborator's own completion status: its exit code, or the signal
Completion(e) == IF e.out.sig # 0 THEN e.out.sig ELSE e.out.code

\* the stage an operation belongs to, in the fixed order
StageOf(op) ==
    CASE op = "feature_extractor" -> 1
      [] op = "exhaustive_matcher" -> 2
      [] op = "mapper" -> 3
      [] op \in {"copy2", "move"} -> 4
      [] op = "model_converter" -> 5
      [] op = "apply_yz_swap" -> 6
      [] op = "mogrify" -> 7

Ops == {log[i].op : i \in 1..Len(log)}

(***************************************************************************)
(* C1: fail-fast.  If a collaborator invocation (feature extraction,       *)
(* matching, mapper, model conversion, a single resize) returns non-zero,  *)
(* nothing happens later in that run: no invocation, copy, relocation,     *)
(* transform pass or resize.                                               *)
(***************************************************************************)
C1_FailFast ==
    \A i \in 1..Len(log) :
        Failed(log[i]) =>
            /\ i = Len(log)
            /\ pc = "exited"
            /\ running = "none"
            /\ StageOf(log[i].op) <= 3 =>
                  /\ images = {}
                  /\ listed = NotListed
                  /\ ~exported.points.exists /\ ~exported.images.exists
                  /\ swapped.passes = 0
                  /\ ~resized.made

\* the mapper has failed after extraction and matching succeeded
C1_Witness ==
    /\ Len(log) = 6
    /\ Failed(log[6]) /\ log[6].op = "mapper"
    /\ pc = "exited"

(***************************************************************************)
(* C2: with auto_z_up, after a successful run every point position and     *)
(* every pose record of points3D.txt and images.txt is Y-Z permuted        *)
(* relative to what the export produced: the run applies the transform     *)
(* exactly once, whether or not database.db exists and contains images.    *)
(* When database.db holds an image the script runs the pass a second time  *)
(* (force_z_up_with_nadir_image), which undoes the first.                  *)
(***************************************************************************)
C2_SwappedOnce ==
    (pc = "done" /\ args.auto_z_up) =>
        /\ Len(points3D.lines) = Len(exported.points.lines)
        /\ Len(imagesTxt.lines) = Len(exported.images.lines)
        /\ \A k \in 1..Len(exported.points.lines) :
              IsData(exported.points.lines[k]) =>
                  IsSwappedPoint(exported.points.lines[k].toks, points3D.lines[k].toks)
        /\ \A k \in EvenData(exported.images.lines) :
              IsData(exported.images.lines[k]) =>
                  IsSwappedPose(exported.images.lines[k].toks, imagesTxt.lines[k].toks)

(***************************************************************************)
(* C3: the exit status the caller observes (8 bits) is non-zero and equal  *)
(* to the failing collaborator's completion status whenever a collaborator *)
(* invocation failed, and is zero only if every enabled stage completed.   *)
(* On posix os.system returns the status in wait() encoding (exit code 1   *)
(* is 256) and exit(256) leaves the process with status 0.                 *)
(***************************************************************************)
C3_ExitStatus ==
    status # NoStatus =>
        /\ \A i \in 1..Len(log) :
              Failed(log[i]) => status # 0 /\ status = Completion(log[i])
        /\ status = 0 => pc = "done"

(***************************************************************************)
(* C9: stage ordering.  The invocations and stages of a run occur in the   *)
(* order feature extraction, feature matching, mapper, image copy and      *)
(* layout normalization, export to text, transform, resize; each starts    *)
(* only after the previous one has returned with status zero; no two are   *)
(* in progress at once; the matching sub-stages are invoked only without   *)
(* the skip-matching flag, and without it the run starts with feature      *)
(* extraction and a completed run has invoked all three.                   *)
(***************************************************************************)
C9_StageOrder ==
    /\ \A i \in 1..(Len(log) - 1) :
          StageOf(log[i].op) <= StageOf(log[i + 1].op)
    /\ \A op \in Ops \ {"copy2", "move", "apply_yz_swap", "mogrify"} :
          Cardinality({i \in 1..Len(log) : log[i].ev = "call" /\ log[i].op = op}) = 1
    /\ \A i \in 1..Len(log) :
          log[i].ev = "call" =>
              IF i = Len(log) THEN running = log[i].op
              ELSE IsReturn(log[i + 1]) /\ log[i + 1].op = log[i].op
    /\ \A i \in 1..Len(log) :
          IsReturn(log[i]) => i > 1 /\ log[i - 1].ev = "call"
    /\ running # "none" => log # <<>> /\ log[Len(log)].ev = "call"
    /\ \A i \in 1..(Len(log) - 1) : IsReturn(log[i]) => log[i].st = 0
    /\ args.skip_matching => \A i \in 1..Len(log) : StageOf(log[i].op) >= 4
    /\ (~args.skip_matching /\ log # <<>>) => log[1].op = "feature_extractor"
    /\ (~args.skip_matching /\ pc = "done") =>
          {"feature_extractor", "exhaustive_matcher", "mapper"} \subseteq Ops

\* a completed run that went through every stage
C9_Witness ==
    /\ pc = "done"
    /\ {StageOf(op) : op \in Ops} = 1..7
    /\ "move" \in Ops

\* the relocation loop of lines 190-195 has run to its end
NormalizationDone ==
    /\ listed # NotListed
    /\ ~(pc = "move_loop" /\ files # <<>>)
    /\ ~(pc = "crashed" /\ "model_converter" \notin Ops)

DerivedFrom(old, new) ==
    \/ new = old
    \/ /\ Len(new.toks) > 0
       /\ Len(old.toks) > 0
       /\ new.toks[1] = old.toks[1]
       /\ \A j \in 1..Len(new.toks) :
             \E m \in 1..Len(old.toks) : SameValue(new.toks[j], old.toks[m])

\* after has the lines of before, one for one and in their order
PreservesLines(before, after) ==
    /\ Len(after) = Len(before)
    /\ \A k \in 1..Len(before) :
          /\ ~IsData(before[k]) => after[k] = before[k]
          /\ DerivedFrom(before[k], after[k])

(***************************************************************************)
(* C11: whenever a transform pass rewrites points3D.txt or images.txt, the *)
(* file keeps its number of lines, line k of the result is built from line *)
(* k of the input, and every comment line and every blank line, inside the *)
(* data region too, is the same line at the same position.                 *)
(***************************************************************************)
C11_LinesPreserved ==
    [][/\ swapped'.points # swapped.points =>
             PreservesLines(points3D.lines, points3D'.lines)
       /\ swapped'.images # swapped.images =>
             PreservesLines(imagesTxt.lines, imagesTxt'.lines)]_vars

\* two passes have rewritten points3D.txt and an images.txt with a blank line
\* and a comment inside its data region
C11_Witness ==
    /\ swapped.passes = 2
    /\ swapped.points = 2
    /\ swapped.images = 2
    /\ \E k \in DataStart(exported.images.lines)..Len(exported.images.lines) :
          is_blank(exported.images.lines[k])
    /\ \E k \in DataStart(exported.images.lines)..Len(exported.images.lines) :
          startswith_hash(exported.images.lines[k])

(***************************************************************************)
(* C12: cameras.txt is byte-identical before and after a transform pass    *)
(* and after any number of passes, and no pass writes to it.               *)
(***************************************************************************)
C12_CamerasUntouched ==
    /\ camerasTxt = exported.cameras
    /\ swapped.cameras = 0

\* MaxPasses passes have rewritten both files next to a cameras.txt
C12_Witness ==
    /\ swapped.passes = MaxPasses
    /\ swapped.points = MaxPasses
    /\ swapped.images = MaxPasses
    /\ camerasTxt.exists
    /\ \E k \in 1..Len(camerasTxt.lines) : IsData(camerasTxt.lines[k])

\* the run is at or inside apply_yz_swap_to_colmap_output
InSwap == pc \in {"swap_points", "swap_images"}

(***************************************************************************)
(* C13: without --auto_z_up no transform pass runs at any point of the     *)
(* run, and after a successful run points3D.txt and images.txt are exactly *)
(* what the export to text produced.                                       *)
(***************************************************************************)
C13_NoSwapWithoutFlag ==
    ~args.auto_z_up =>
        /\ ~InSwap
        /\ "apply_yz_swap" \notin Ops
        /\ swapped = [points |-> 0, images |-> 0, cameras |-> 0, passes |-> 0]
        /\ pc = "done" =>
              /\ points3D.exists /\ points3D = exported.points
              /\ imagesTxt.exists /\ imagesTxt = exported.images

\* a run without --auto_z_up, on a directory whose database.db has images,
\* has ended well with exported files that have a point and a pose
C13_Witness ==
    /\ ~args.auto_z_up
    /\ pc = "done"
    /\ db.exists /\ db.images
    /\ \E k \in 1..Len(points3D.lines) : IsData(points3D.lines[k])
    /\ \E k \in 1..Len(imagesTxt.lines) : IsData(imagesTxt.lines[k])

\* the resize operations in the order the claim gives them
RatioOrder == <<"50%", "25%", "12.5%">>

\* the j-th resize operation of a run that resizes every file in turn: its
\* ratio and the file (files are numbered as images/ lists them)
ResizeStep(j) == <<RatioOrder[((j - 1) % 3) + 1], ((j - 1) \div 3) + 1>>

\* the invocations of the image-processing tool so far, in order
ResizeCalls == SelectSeq(log, LAMBDA e : e.ev = "call" /\ e.op = "mogrify")

(***************************************************************************)
(* C14: without --resize the image-processing tool is never invoked and    *)
(* none of images_2, images_4, images_8 is created; with --resize the 50%, *)
(* 25% and 12.5% operations are issued in that order for each file of      *)
(* images/, one file at a time, and the first one that returns non-zero is *)
(* the last resize operation of the run.                                   *)
(***************************************************************************)
C14_Resize ==
    /\ ~args.resize =>
          /\ "mogrify" \notin Ops
          /\ ~resized.made
          /\ resized.done = {}
    /\ args.resize =>
          /\ Len(ResizeCalls) <= 3 * Cardinality(images)
          /\ \A j \in 1..Len(ResizeCalls) : ResizeCalls[j].arg = ResizeStep(j)[1]
          /\ resized.done = {ResizeStep(j) : j \in 1..Len(ResizeCalls)}
          /\ resized.done # {} => resized.made
          /\ pc = "done" => Len(ResizeCalls) = 3 * Cardinality(images)
          /\ \A i \in 1..Len(log) :
                log[i].ev = "return" /\ log[i].op = "mogrify" /\ log[i].st # 0 =>
                    \A m \in (i + 1)..Len(log) : log[m].op # "mogrify"

\* a run with --resize has resized MaxFiles files and the last operation
\* returned non-zero
C14_Witness ==
    /\ args.resize
    /\ Cardinality(images) = MaxFiles
    /\ Len(ResizeCalls) = 3 * MaxFiles
    /\ log[Len(log)].ev = "return"
    /\ log[Len(log)].op = "mogrify"
    /\ log[Len(log)].st # 0

\* float() raises on a line of points3D.txt: a data line of at least 4
\* fields whose X, Y or Z is not a number
BadPointLine(line) ==
    /\ IsData(line)
    /\ Len(line.toks) >= 4
    /\ \E j \in 2..4 : ~IsFloat(line.toks[j])

\* float() can raise on a line of images.txt: a data line of at least 10
\* fields whose quaternion or translation has a field that is not a number
BadPoseLine(line) ==
    /\ IsData(line)
    /\ Len(line.toks) >= 10
    /\ \E j \in 2..8 : ~IsFloat(line.toks[j])

HasBadPoint(file) == \E k \in 1..Len(file.lines) : BadPointLine(file.lines[k])

HasBadPose(file) == \E k \in 1..Len(file.lines) : BadPoseLine(file.lines[k])

(***************************************************************************)
(* C15: a missing points3D.txt or images.txt is not an error: the pass     *)
(* does not fail because of it, does not create the missing file, and      *)
(* still transforms the file that is there.                                *)
(***************************************************************************)
C15_MissingFilesSkipped ==
    /\ ~exported.points.exists => points3D = Absent /\ swapped.points = 0
    /\ ~exported.images.exists => imagesTxt = Absent /\ swapped.images = 0
    /\ pc = "crashed" =>
          \/ exported.points.exists /\ HasBadPoint(exported.points)
          \/ exported.images.exists /\ HasBadPose(exported.images)
    /\ swapped.passes >= 1 =>
          /\ exported.points.exists => swapped.points >= 1
          /\ exported.images.exists => swapped.images >= 1

\* a pass has ended on a directory without points3D.txt and has rewritten a
\* pose of images.txt
C15_Witness ==
    /\ swapped.passes = 1
    /\ ~exported.points.exists
    /\ ~points3D.exists
    /\ swapped.images = 1
    /\ imagesTxt # exported.images

\* a comment line that contains the header terminator
IsTerminatorLine(line) == startswith_hash(line) /\ has_terminator(line)

\* no terminator line comes before line k
BeforeTerminator(lines, k) == \A j \in 1..(k - 1) : ~IsTerminatorLine(lines[j])

\* a line the pass would rewrite in the data region: at an even index of the
\* file (from 0), with the fields of a pose whose Y and Z parts differ
RewritablePose(lines, k) ==
    /\ IsData(lines[k])
    /\ (k - 1) % 2 = 0
    /\ Len(lines[k].toks) >= 10
    /\ ~BadPoseLine(lines[k])
    /\ float(lines[k].toks[7]) # float(lines[k].toks[8])

(***************************************************************************)
(* C16: in images.txt a line is treated as data only after a comment line  *)
(* containing '# Number of images:': every pass emits every line before    *)
(* the first such line unchanged, and a file without one unchanged as a    *)
(* whole.                                                                  *)
(***************************************************************************)
C16_HeaderGating ==
    [][swapped'.images # swapped.images =>
          /\ Len(imagesTxt'.lines) = Len(imagesTxt.lines)
          /\ \A k \in 1..Len(imagesTxt.lines) :
                BeforeTerminator(imagesTxt.lines, k) =>
                    imagesTxt'.lines[k] = imagesTxt.lines[k]]_vars

\* a pass has rewritten a pose after the terminator line of an images.txt
\* that has the same kind of line before the terminator
C16_Witness ==
    /\ swapped.images = 1
    /\ Len(imagesTxt.lines) = Len(exported.images.lines)
    /\ \E k \in 1..Len(exported.images.lines) :
          /\ RewritablePose(exported.images.lines, k)
          /\ BeforeTerminator(exported.images.lines, k)
          /\ imagesTxt.lines[k] = exported.images.lines[k]
    /\ \E k \in 1..Len(exported.images.lines) :
          /\ RewritablePose(exported.images.lines, k)
          /\ ~BeforeTerminator(exported.images.lines, k)
          /\ imagesTxt.lines[k] # exported.images.lines[k]

\* the script keeps running while a statement can run, and a collaborator
\* that was invoked returns
FairSpec == Spec /\ WF_vars(Next)

\* the run ends: the process has an exit status
Terminates == <>(status # NoStatus)

\* the stages the command line enables have all run, none has failed
Completed ==
    /\ pc = "done"
    /\ \A i \in 1..Len(log) : ~Failed(log[i])
    /\ ~args.skip_matching =>
          {"feature_extractor", "exhaustive_matcher", "mapper"} \subseteq Ops
    /\ Cardinality(images) = input
    /\ listed # NotListed
    /\ "model_converter" \in Ops
    /\ args.auto_z_up => "apply_yz_swap" \in Ops
    /\ args.resize => resized.done = Ratios \X images

\* the run stopped at a collaborator invocation that failed, the first one
Aborted ==
    /\ pc = "exited"
    /\ log # <<>>
    /\ Failed(log[Len(log)])
    /\ \A i \in 1..(Len(log) - 1) : ~Failed(log[i])

(***************************************************************************)
(* C17: a run that has ended is in one of two terminal states, completed   *)
(* (every enabled stage ran, in order) or aborted at the first failing     *)
(* collaborator invocation; no collaborator is invoked a second time and   *)
(* the run never goes back to an earlier stage.                            *)
(* Every run does end (Terminates holds under FairSpec), but a file        *)
(* operation that raises ends it in a third way: os.listdir of a missing   *)
(* sparse/ with --skip_matching, shutil.move onto an existing sparse/0/X/X.*)
(***************************************************************************)
C17_TwoTerminalStates ==
    /\ status # NoStatus => Completed \/ Aborted
    /\ \A i \in 1..(Len(log) - 1) : StageOf(log[i].op) <= StageOf(log[i + 1].op)
    /\ \A op \in Ops \ {"copy2", "move", "apply_yz_swap", "mogrify"} :
          Cardinality({i \in 1..Len(log) : log[i].ev = "call" /\ log[i].op = op}) = 1
    /\ Len(ResizeCalls) = Cardinality(resized.done)

(***************************************************************************)
(* C18: a file is overwritten only after all its lines have been           *)
(* processed: the step of a pass that fails on a line (a coordinate,       *)
(* quaternion or translation field that is not a number, on a line with    *)
(* enough fields) leaves every file on disk as it was; when the failure is *)
(* in images.txt, points3D.txt has already been overwritten in that pass.  *)
(***************************************************************************)
C18_WriteAfterParse ==
    [][pc' = "crashed" =>
          /\ points3D' = points3D
          /\ imagesTxt' = imagesTxt
          /\ camerasTxt' = camerasTxt
          /\ pc = "swap_points" => HasBadPoint(points3D)
          /\ pc = "swap_images" =>
                /\ HasBadPose(imagesTxt)
                /\ points3D.exists => swapped.points = swapped.passes + 1]_vars

\* a pass has rewritten points3D.txt, exchanging Y and Z of a point, and has
\* then failed on a line of images.txt, which is as it was
C18_Witness ==
    /\ pc = "crashed"
    /\ swapped.points = 1
    /\ points3D # exported.points
    /\ imagesTxt = exported.images
    /\ HasBadPose(imagesTxt)
    /\ Len(imagesTxt.lines) > 1

====
